---- MODULE Spec2Model ----
(***************************************************************************)
(* Hospital privacy dashboard: credential verification (auth.py), privacy  *)
(* transforms (privacy.py), persistence (db.py), audit logging (logs.py)   *)
(* and the Streamlit script (app.py).                                      *)
(*                                                                         *)
(* Text values are sequences of one-character strings, so that length,     *)
(* character classes and digit filtering are computed as the code does.    *)
(* Python's None|value is a set with at most one element.                  *)
(***************************************************************************)
EXTENDS Integers, Sequences, FiniteSets, TLC

VARIABLES
    users,      \* table users: set of rows [user_id, username, password, role]
    auth,       \* the last authenticate() call: its arguments and what it returned
    ver,        \* the last verify_password() call: its arguments and what it returned
    mig,        \* how often init_db has migrated the passwords, and the table
                \* users it found the first time
    fernet_available, \* privacy.FERNET_AVAILABLE: the cryptography package imported
    enc_key,    \* privacy._ENCRYPTION_KEY: "None" or a key
    key_file,   \* the file encryption.key: "missing" or the key it holds
    next_key,   \* how many keys Fernet.generate_key() has produced so far
    enc,        \* the last encrypt_value() call
    dec,        \* the last decrypt_value() call
    patients,   \* table patients: set of rows
    next_patient_id, \* the rowid the next INSERT INTO patients gets
    logs,       \* table logs, in log_id order
    consent_log, \* table consent_log, in consent_id order
    now,        \* the clock, in days
    st_user,    \* st.session_state.user
    consent_given, \* st.session_state.consent_given
    confirm_delete, \* st.session_state.confirm_delete
    screen,     \* the page the browser shows: what the last run of the script rendered
    last,       \* what the last run of the script was asked to do, the database call
                \* that was made to fail in it, and how it ended
    faults,     \* how many database calls have been made to fail so far
    log_base,   \* how long the audit log was when the behaviour started
    ret         \* the last retention call: its arguments and what it returned

credVars == <<users, auth, ver, mig>>
keyVars == <<fernet_available, enc_key, key_file, next_key>>
cryptoVars == <<enc, dec>>
dbVars == <<patients, next_patient_id, logs, consent_log>>
sessionVars == <<st_user, consent_given, confirm_delete, screen>>
appVars == <<patients, next_patient_id, logs, consent_log, now,
             st_user, consent_given, confirm_delete, screen, last, faults, log_base,
             ret>>
vars == <<users, auth, ver, mig, fernet_available, enc_key, key_file, next_key, enc, dec,
          patients, next_patient_id, logs, consent_log, now,
          st_user, consent_given, confirm_delete, screen, last, faults, log_base,
          ret>>

(***************************************************************************)
(* Character classes                                                       *)
(***************************************************************************)
Digits == {"0","1","2","3","4","5","6","7","8","9"}
HexChars == Digits \cup {"a","b","c","d","e","f","A","B","C","D","E","F"}

\* ''.join(filter(pred, s))
RECURSIVE FilterSeq(_, _)
FilterSeq(s, keep) ==
    IF s = <<>> THEN <<>>
    ELSE IF Head(s) \in keep THEN <<Head(s)>> \o FilterSeq(Tail(s), keep)
    ELSE FilterSeq(Tail(s), keep)

(***************************************************************************)
(* Passwords and their SHA-256 hex digests (hashlib.sha256(..).hexdigest() *)
(* of the UTF-8 bytes), tabulated for the texts the model uses.            *)
(***************************************************************************)
P_admin == <<"a","d","m","i","n","1","2","3">>
P_Admin == <<"A","d","m","i","n","1","2","3">>
P_tulaib == <<"t","u","l","a","i","b","1","2","3">>
P_hammad == <<"h","a","m","m","a","d","1","2","3">>
P_empty == <<>>
P_z64 == [i \in 1..64 |-> "z"]
H_admin ==
    <<"2","4","0","b","e","5","1","8","f","a","b","d","2","7","2","4","d","d","b","6","f","0","4","e","e","b","1","d","a","5","9","6","7","4","4","8","d","7","e","8","3","1","c","0","8","c","8","f","a","8","2","2","8","0","9","f","7","4","c","7","2","0","a","9">>
H_Admin ==
    <<"3","b","6","1","2","c","7","5","a","7","b","5","0","4","8","a","4","3","5","f","b","6","e","c","8","1","e","5","2","f","f","9","2","d","6","d","7","9","5","a","8","b","5","a","9","c","1","7","0","7","0","f","6","a","6","3","c","9","7","a","5","3","b","2">>
H_tulaib ==
    <<"b","f","2","1","b","e","f","1","6","9","7","5","c","e","b","4","8","9","0","0","f","c","c","3","6","d","6","9","e","a","4","1","7","e","d","8","f","5","d","6","a","d","1","9","e","a","1","a","c","e","3","1","4","6","9","3","3","7","c","c","8","8","0","c">>
H_hammad ==
    <<"e","f","e","b","c","9","2","8","4","d","d","8","7","7","b","d","0","6","d","6","3","4","1","1","9","6","f","b","f","2","a","4","d","c","4","2","8","6","2","c","f","5","6","0","0","a","e","b","8","4","e","0","b","a","a","2","a","4","7","1","8","6","4","f">>
H_empty ==
    <<"e","3","b","0","c","4","4","2","9","8","f","c","1","c","1","4","9","a","f","b","f","4","c","8","9","9","6","f","b","9","2","4","2","7","a","e","4","1","e","4","6","4","9","b","9","3","4","c","a","4","9","5","9","9","1","b","7","8","5","2","b","8","5","5">>
H_z64 ==
    <<"7","2","9","9","6","5","6","3","0","4","9","c","c","8","4","d","a","a","2","c","3","f","3","1","f","d","5","c","3","d","1","0","7","7","0","e","6","9","d","6","e","b","b","b","8","d","a","5","b","6","d","7","6","d","b","3","0","3","d","b","a","e","4","3">>
H_H_admin ==
    <<"d","a","1","a","5","1","f","9","7","5","c","d","7","5","0","b","e","2","5","5","d","2","1","5","4","8","e","a","a","e","1","d","b","a","a","9","6","f","f","c","9","9","7","2","8","3","a","6","a","2","0","4","f","9","2","1","3","a","8","a","c","a","7","1">>
H_Al ==
    <<"1","a","f","8","f","f","a","2","7","8","5","e","9","4","9","3","a","c","b","0","c","9","1","5","7","f","3","f","8","b","9","f","c","1","9","4","f","7","c","5","a","7","5","6","6","2","1","8","8","2","c","1","f","0","4","e","1","1","f","b","6","e","b","1">>
H_Bo ==
    <<"e","5","2","e","1","c","e","d","a","3","c","7","3","b","4","9","3","c","1","0","2","c","8","0","8","5","d","b","4","3","4","3","b","a","e","2","f","6","f","9","f","e","c","5","9","b","8","4","1","5","7","8","b","1","c","8","9","b","b","0","b","2","0","6">>


Sha256Hex(s) ==
    CASE s = P_admin -> H_admin
      [] s = P_Admin -> H_Admin
      [] s = P_tulaib -> H_tulaib
      [] s = P_hammad -> H_hammad
      [] s = P_empty -> H_empty
      [] s = P_z64 -> H_z64
      [] s = H_admin -> H_H_admin
      [] s = <<"A","l">> -> H_Al
      [] s = <<"B","o">> -> H_Bo

\* privacy.hash_password
hash_password(password) == Sha256Hex(password)

\* privacy.verify_password_hash
verify_password_hash(plain_password, stored_hash) ==
    hash_password(plain_password) = stored_hash

\* auth.verify_password: a stored value of length 64 is taken to be a digest
verify_password(plain_password, stored_password) ==
    IF Len(stored_password) = 64
    THEN verify_password_hash(plain_password, stored_password)
    ELSE plain_password = stored_password

\* init_db.init_db, the password migration: every stored password whose
\* length is not 64 is replaced by its digest
init_db(rows) ==
    {IF Len(u.password) # 64
     THEN [u EXCEPT !.password = hash_password(u.password)]
     ELSE u : u \in rows}

\* db.get_user_by_username: fetchone() of SELECT * FROM users WHERE username = ?
\* raised: the connection or the query failed
get_user_by_username(rows, username, dbFails) ==
    IF dbFails THEN [raised |-> TRUE, user |-> {}]
    ELSE LET found == {u \in rows : u.username = username}
         IN  IF found = {} THEN [raised |-> FALSE, user |-> {}]
             ELSE [raised |-> FALSE, user |-> {CHOOSE u \in found : TRUE}]

\* authenticate with the check of the password left out
authenticate_unverified(rows, username, password, dbFails) ==
    get_user_by_username(rows, username, dbFails)

\* auth.authenticate
authenticate(rows, username, password, dbFails) ==
    LET got == get_user_by_username(rows, username, dbFails)
    IN  IF got.raised THEN got
        ELSE IF got.user = {} THEN [raised |-> FALSE, user |-> {}]
        ELSE LET user == CHOOSE u \in got.user : TRUE
             IN  IF ~verify_password(password, user.password)
                 THEN [raised |-> FALSE, user |-> {}]
                 ELSE [raised |-> FALSE, user |-> {user}]


(***************************************************************************)
(* privacy.py: anonymisation, masking, validation                          *)
(***************************************************************************)
Letters ==
    {"a","b","c","d","e","f","g","h","i","j","k","l","m","n","o","p","q","r","s",
     "t","u","v","w","x","y","z","A","B","C","D","E","F","G","H","I","J","K","L",
     "M","N","O","P","Q","R","S","T","U","V","W","X","Y","Z"}
Whitespace == {" ", "\t", "\n", "\r"}
NameChars == Letters \cup Whitespace \cup {".", "-", "'"}

\* str.upper() on one character of a hex digest
UpperChar(c) ==
    CASE c = "a" -> "A" [] c = "b" -> "B" [] c = "c" -> "C"
      [] c = "d" -> "D" [] c = "e" -> "E" [] c = "f" -> "F"
      [] OTHER -> c

\* privacy.anonymize_name: "ANON_" + first 6 hex characters of the digest, upper case
anonymize_name(original_name) ==
    IF original_name = <<>> THEN {}
    ELSE LET digest == SubSeq(Sha256Hex(original_name), 1, 6)
         IN  { <<"A","N","O","N","_">> \o [i \in 1..6 |-> UpperChar(digest[i])] }

\* privacy.mask_contact: "XXX-XXX-" + the last four digits
mask_contact(contact) ==
    IF contact = <<>> THEN {}
    ELSE LET digits == FilterSeq(contact, Digits)
         IN  IF Len(digits) >= 4
             THEN { <<"X","X","X","-","X","X","X","-">>
                      \o SubSeq(digits, Len(digits) - 3, Len(digits)) }
             ELSE { <<"X","X","X","-","X","X","X","-","X","X","X","X">> }

(***************************************************************************)
(* Fernet.  A token is the text <<"gAAAAA", iv, key, tag>> \o plaintext:   *)
(* the marker stands for the version byte and timestamp, tag is "hmac"     *)
(* when the HMAC matches the rest of the token and "bad" after any change  *)
(* to it.  TextLen gives the length of the text the token really is.       *)
(***************************************************************************)
FernetMarker == "gAAAAA"
KeyOrder == <<"k1", "k2", "k3", "k4", "k5">>

IsTokenText(s) == Len(s) >= 4 /\ s[1] = FernetMarker

\* Fernet(key).encrypt(value.encode("utf-8")).decode("utf-8")
FernetEncrypt(key, iv, value) == <<FernetMarker, iv, key, "hmac">> \o value

\* Fernet(key).decrypt succeeds: well formed, made under this key, HMAC intact
FernetValid(key, token) ==
    IsTokenText(token) /\ token[3] = key /\ token[4] = "hmac"

FernetPlain(token) == SubSeq(token, 5, Len(token))

\* a token changed after it was made: the HMAC no longer matches
Corrupted(token) == [token EXCEPT ![4] = "bad"]

\* len(text).  A token of n plaintext bytes is the urlsafe base64 of
\* 1 + 8 + 16 + 16 * (n \div 16 + 1) + 32 bytes.
RECURSIVE TextLen(_)
TextLen(s) ==
    IF IsTokenText(s)
    THEN LET n == TextLen(FernetPlain(s))
             bytes == 57 + 16 * ((n \div 16) + 1)
         IN  4 * ((bytes + 2) \div 3)
    ELSE Len(s)

\* privacy.validate_contact
validate_contact(contact) ==
    LET digits == FilterSeq(contact, Digits)
    IN  IF contact = <<>> THEN [ok |-> FALSE, msg |-> "Contact cannot be empty"]
        ELSE IF Len(digits) < 10
        THEN [ok |-> FALSE, msg |-> "Contact must have at least 10 digits"]
        ELSE IF Len(digits) > 15
        THEN [ok |-> FALSE, msg |-> "Contact number too long"]
        ELSE [ok |-> TRUE, msg |-> ""]

\* privacy.validate_name
validate_name(name) ==
    IF name = <<>> THEN [ok |-> FALSE, msg |-> "Name cannot be empty"]
    ELSE IF TextLen(name) < 2
    THEN [ok |-> FALSE, msg |-> "Name must be at least 2 characters"]
    ELSE IF TextLen(name) > 100
    THEN [ok |-> FALSE, msg |-> "Name too long (max 100 characters)"]
    ELSE IF \E i \in 1..Len(name) : name[i] \notin NameChars
    THEN [ok |-> FALSE,
          msg |-> "Name can only contain letters, spaces, dots, and hyphens"]
    ELSE [ok |-> TRUE, msg |-> ""]

\* privacy.validate_diagnosis
validate_diagnosis(diagnosis) ==
    IF diagnosis = <<>> THEN [ok |-> FALSE, msg |-> "Diagnosis cannot be empty"]
    ELSE IF TextLen(diagnosis) < 3
    THEN [ok |-> FALSE, msg |-> "Diagnosis too short (min 3 characters)"]
    ELSE IF TextLen(diagnosis) > 500
    THEN [ok |-> FALSE, msg |-> "Diagnosis too long (max 500 characters)"]
    ELSE [ok |-> TRUE, msg |-> ""]

(***************************************************************************)
(* The encryption key: a process-wide global and the file encryption.key.  *)
(* A key state is [enc_key, key_file, next_key].                           *)
(***************************************************************************)
KeyState == [enc_key |-> enc_key, key_file |-> key_file, next_key |-> next_key]

\* privacy.initialize_encryption_key
initialize_encryption_key(available, k) ==
    IF ~available THEN k
    ELSE IF k.key_file # "missing"
    THEN [k EXCEPT !.enc_key = k.key_file]
    ELSE LET fresh == KeyOrder[k.next_key + 1]
         IN  [enc_key |-> fresh, key_file |-> fresh, next_key |-> k.next_key + 1]

\* privacy.get_encryption_key: initialises the global on first use
get_encryption_key(available, k) ==
    IF k.enc_key = "None" THEN initialize_encryption_key(available, k) ELSE k

\* privacy.encrypt_value: [raised, value, k]
encrypt_value(value, iv, available, k) ==
    IF ~available THEN [raised |-> TRUE, value |-> value, k |-> k]
    ELSE LET k1 == get_encryption_key(available, k)
         IN  IF k1.enc_key = "None" THEN [raised |-> TRUE, value |-> value, k |-> k1]
             ELSE [raised |-> FALSE,
                   value |-> FernetEncrypt(k1.enc_key, iv, value), k |-> k1]

\* decrypt_value that hands back what it was given and never decrypts
decrypt_value_passthrough(token, available, k) ==
    [raised |-> ~available, value |-> token, k |-> get_encryption_key(available, k)]

\* decrypt_value without the except clause: InvalidToken reaches the caller
decrypt_value_unguarded(token, available, k) ==
    IF ~available THEN [raised |-> TRUE, value |-> token, k |-> k]
    ELSE [raised |-> ~FernetValid(get_encryption_key(available, k).enc_key, token),
          value |-> IF FernetValid(get_encryption_key(available, k).enc_key, token)
                    THEN FernetPlain(token) ELSE token,
          k |-> get_encryption_key(available, k)]

\* privacy.decrypt_value: [raised, value, k]; a token that does not decrypt is
\* returned as it is
decrypt_value(token, available, k) ==
    IF ~available THEN [raised |-> TRUE, value |-> token, k |-> k]
    ELSE LET k1 == get_encryption_key(available, k)
         IN  IF k1.enc_key = "None" THEN [raised |-> TRUE, value |-> token, k |-> k1]
             ELSE IF FernetValid(k1.enc_key, token)
             THEN [raised |-> FALSE, value |-> FernetPlain(token), k |-> k1]
             ELSE [raised |-> FALSE, value |-> token, k |-> k1]

(***************************************************************************)
(* The users table: the three accounts of the login hint (app.py), with    *)
(* credentials as init_db leaves them (hashed), as they were before it     *)
(* (plain), and with one legacy account whose plain password has 64        *)
(* characters.                                                             *)
(***************************************************************************)
UserRow(id, name, pw, role) ==
    [user_id |-> id, username |-> name, password |-> pw, role |-> role]

HashedUsers ==
    { UserRow(1, "admin", H_admin, "admin"),
      UserRow(2, "tulaib", H_tulaib, "doctor"),
      UserRow(3, "hammad", H_hammad, "receptionist") }

LegacyUsers ==
    { UserRow(1, "admin", P_admin, "admin"),
      UserRow(2, "tulaib", P_tulaib, "doctor"),
      UserRow(3, "hammad", P_hammad, "receptionist") }

Legacy64Users ==
    { UserRow(1, "admin", H_admin, "admin"),
      UserRow(2, "tulaib", P_z64, "doctor"),
      UserRow(3, "hammad", P_hammad, "receptionist") }

UserTables == {HashedUsers, LegacyUsers, Legacy64Users}

Usernames == {"admin", "tulaib", "hammad", "nobody", "Admin"}
Passwords == {P_admin, P_Admin, P_tulaib, P_hammad, P_empty, P_z64, H_admin}
StoredValues == {H_admin, H_z64, P_admin, P_Admin, P_z64, P_empty}

NoEnc == [done |-> FALSE, plain |-> <<>>, raised |-> FALSE, token |-> <<>>, key |-> "None"]
NoDec == [done |-> FALSE, token |-> <<>>, raised |-> FALSE, value |-> <<>>, key |-> "None"]
NoAuth == [done |-> FALSE, username |-> "", password |-> <<>>,
           raised |-> FALSE, user |-> {}]
NoVer == [done |-> FALSE, plain |-> <<>>, stored |-> <<>>, result |-> FALSE]
NoMig == [runs |-> 0, original |-> {}]
NoRet == [op |-> "none", days |-> 0, at |-> 0, before |-> {}, after |-> {},
          rows |-> <<>>, count |-> 0]

(***************************************************************************)
(* Texts the forms are filled with                                         *)
(***************************************************************************)
MaxKeys == 2
IVs == {"iv1", "iv2"}

T_flu == <<"f","l","u">>
T_cold == <<"c","o","l","d">>
PlainTexts == {T_flu, T_cold, <<>>}

N_Al == <<"A","l">>
N_Bo == <<"B","o">>
N_sentinel == <<"N","O","T","_","A","N","O","N","Y","M","I","Z","E","D">>
C_555 == <<"5","5","5","-","1","2","3","-","4","5","6","7">>
C_666 == <<"6","6","6","6","6","6","9","9","9","9">>
C_123 == <<"1","2","3">>
C_masked == <<"X","X","X","-","X","X","X","-","4","5","6","7">>
D_xy == <<"x","y">>

Form(name, contact, diagnosis) ==
    [name |-> name, contact |-> contact, diagnosis |-> diagnosis]

(***************************************************************************)
(* One run of the script app.py works on a record s: the tables, the       *)
(* session state and the key as the run has changed them so far, and       *)
(*   now      the day the run happens on                                   *)
(*   fail     the database call that raises in this run ("none": none)     *)
(*   hit      that call was made, and raised                               *)
(*   exc      an exception is propagating                                  *)
(*   halt     the run is over (return from main, st.stop, rerun, error)    *)
(*   rerun    st.experimental_rerun() was called                           *)
(*   op, outcome, msg, auth, count   what the run was asked and reported   *)
(***************************************************************************)
RetentionDays == 90
Confidential ==
    <<"*","*","*","C","O","N","F","I","D","E","N","T","I","A","L"," ","-"," ","A","N","O","N","Y","M","I","Z","E","D","*","*","*">>
NotAnonymized == N_sentinel

Raise(s) == [s EXCEPT !.exc = TRUE, !.halt = TRUE]
\* the database call at the failing site raises
Fail(s) == [s EXCEPT !.exc = TRUE, !.halt = TRUE, !.hit = TRUE]
Halt(s) == [s EXCEPT !.halt = TRUE]
Rerun(s) == [s EXCEPT !.halt = TRUE, !.rerun = TRUE]
Report(s, outcome, msg) == [s EXCEPT !.outcome = outcome, !.msg = msg]
\* except Exception as e: st.error(...)
Caught(s) == [s EXCEPT !.exc = FALSE, !.halt = FALSE, !.outcome = "error"]

\* db.add_log.  details: the number the message states (a count, a patient id,
\* a name length), 0 when it states none
add_log(s, user_id, role, action, details, site) ==
    IF s.fail = site THEN Fail(s)
    ELSE [s EXCEPT !.logs = Append(@, [user_id |-> user_id, role |-> role,
                                       action |-> action, details |-> details])]

\* logs.log_action
log_action(s, user, action, details, site) ==
    IF user = {} THEN add_log(s, {}, {}, action, details, site)
    ELSE LET u == CHOOSE x \in user : TRUE
         IN  add_log(s, {u.user_id}, {u.role}, action, details, site)

\* db.add_patient
add_patient(s, name, contact, diagnosis) ==
    IF s.fail = "insert" THEN Fail(s)
    ELSE [s EXCEPT !.patients = @ \cup
                      {[patient_id |-> s.next_patient_id, name |-> name,
                        contact |-> contact, diagnosis |-> diagnosis,
                        anonymized_name |-> {}, anonymized_contact |-> {},
                        date_added |-> s.now]},
                   !.next_patient_id = @ + 1]

\* update_patient writing the row afresh, the anonymized columns cleared
update_patient_clearing_anonymized(s, patient_id, name, contact, diagnosis) ==
    IF s.fail = "update" THEN Fail(s)
    ELSE [s EXCEPT !.patients =
            { IF p.patient_id = patient_id
              THEN [p EXCEPT !.name = name, !.contact = contact,
                             !.diagnosis = diagnosis,
                             !.anonymized_name = {}, !.anonymized_contact = {}]
              ELSE p : p \in @ }]

\* db.update_patient
update_patient(s, patient_id, name, contact, diagnosis) ==
    IF s.fail = "update" THEN Fail(s)
    ELSE [s EXCEPT !.patients =
            { IF p.patient_id = patient_id
              THEN [p EXCEPT !.name = name, !.contact = contact,
                             !.diagnosis = diagnosis]
              ELSE p : p \in @ }]

\* db.delete_patient
delete_patient(s, patient_id) ==
    IF s.fail = "delete" THEN Fail(s)
    ELSE [s EXCEPT !.patients = {p \in @ : p.patient_id # patient_id}]

\* set_patient_anonymized writing the name and leaving the contact for later
set_patient_anonymized_name_only(s, patient_id, anonymized_name, anonymized_contact, site) ==
    IF s.fail = site THEN Fail(s)
    ELSE [s EXCEPT !.patients =
            { IF p.patient_id = patient_id
              THEN [p EXCEPT !.anonymized_name = anonymized_name]
              ELSE p : p \in @ }]

\* db.set_patient_anonymized
set_patient_anonymized(s, patient_id, anonymized_name, anonymized_contact, site) ==
    IF s.fail = site THEN Fail(s)
    ELSE [s EXCEPT !.patients =
            { IF p.patient_id = patient_id
              THEN [p EXCEPT !.anonymized_name = anonymized_name,
                             !.anonymized_contact = anonymized_contact]
              ELSE p : p \in @ }]

\* ORDER BY patient_id DESC: the ids, highest first
RECURSIVE IdsDesc(_)
IdsDesc(ids) ==
    IF ids = {} THEN <<>>
    ELSE LET m == CHOOSE i \in ids : \A j \in ids : j <= i
         IN  <<m>> \o IdsDesc(ids \ {m})

PatientIds(rows) == {p.patient_id : p \in rows}
PatientById(rows, id) == CHOOSE p \in rows : p.patient_id = id

\* ORDER BY date_added ASC: the rows, oldest first (rows of one date in rowid
\* order)
RECURSIVE OldestFirst(_)
OldestFirst(rows) ==
    IF rows = {} THEN <<>>
    ELSE LET m == CHOOSE r \in rows :
                      \A o \in rows :
                          \/ r.date_added < o.date_added
                          \/ r.date_added = o.date_added /\ r.patient_id <= o.patient_id
         IN  <<m>> \o OldestFirst(rows \ {m})

\* db.get_patients_for_deletion: patient_id, anonymized_name and date_added of
\* the rows with date_added < cutoff, oldest first
get_patients_for_deletion(s, days) ==
    OldestFirst({[patient_id |-> p.patient_id, anonymized_name |-> p.anonymized_name,
                  date_added |-> p.date_added] :
                    p \in {q \in s.patients : q.date_added < s.now - days}})

\* delete_old_records sweeping the audit log together with the patients
delete_old_records_sweeping_logs(s, days) ==
    IF s.fail = "purge" THEN Fail(s)
    ELSE [s EXCEPT !.patients = {p \in @ : ~(p.date_added < s.now - days)},
                   !.count = Cardinality({p \in s.patients :
                                             p.date_added < s.now - days}),
                   !.logs = <<>>]

\* delete_old_records taking the row dated exactly at the cutoff as well
delete_old_records_at_cutoff(s, days) ==
    IF s.fail = "purge" THEN Fail(s)
    ELSE [s EXCEPT !.patients = {p \in @ : ~(p.date_added <= s.now - days)},
                   !.count = Cardinality({p \in s.patients :
                                             p.date_added <= s.now - days})]

\* db.delete_old_records: s after the DELETE; the row count is in s.count
delete_old_records(s, days) ==
    IF s.fail = "purge" THEN Fail(s)
    ELSE LET old == {p \in s.patients : p.date_added < s.now - days}
         IN  [s EXCEPT !.patients = @ \ old, !.count = Cardinality(old)]

\* SUM(CASE WHEN date_added > datetime('now', '-N days') THEN 1 ELSE 0 END): NULL
\* over an empty table
CountNewerThan(s, days) ==
    IF s.patients = {} THEN {}
    ELSE {Cardinality({p \in s.patients : p.date_added > s.now - days})}

\* db.get_patient_count_by_age
get_patient_count_by_age(s) ==
    [total |-> Cardinality(s.patients),
     last_30_days |-> CountNewerThan(s, 30),
     last_60_days |-> CountNewerThan(s, 60),
     last_90_days |-> CountNewerThan(s, RetentionDays)]

\* db.add_consent_record
add_consent_record(s, user_id, consent_type) ==
    IF s.fail = "consent_write" THEN Fail(s)
    ELSE [s EXCEPT !.consent_log =
            Append(@, [user_id |-> user_id, consent_type |-> consent_type])]

\* db.get_user_consent: the latest consent row of the user, of any type
get_user_consent(s, user_id) ==
    {i \in 1..Len(s.consent_log) : s.consent_log[i].user_id = user_id}



(***************************************************************************)
(* app.py                                                                  *)
(***************************************************************************)
\* what the user did to start the run: the widget used and what was typed
NoIt == [kind |-> "none", username |-> "", password |-> <<>>,
         form |-> Form(<<>>, <<>>, <<>>), encrypt_diag |-> FALSE, sel |-> 0,
         iv |-> "iv1"]

TheUser(s) == CHOOSE u \in s.user : TRUE

\* the three validators, as every form handler calls them: the message of the
\* first field that fails
Validate(form) ==
    LET vn == validate_name(form.name)
        vc == validate_contact(form.contact)
        vd == validate_diagnosis(form.diagnosis)
    IN  IF ~vn.ok THEN [ok |-> FALSE, field |-> "name", msg |-> vn.msg]
        ELSE IF ~vc.ok THEN [ok |-> FALSE, field |-> "contact", msg |-> vc.msg]
        ELSE IF ~vd.ok THEN [ok |-> FALSE, field |-> "diagnosis", msg |-> vd.msg]
        ELSE [ok |-> TRUE, field |-> "", msg |-> ""]

\* the end of a try block whose last statement is st.experimental_rerun():
\* except Exception as e: st.error(...)
TryEnd(l) ==
    IF l.exc THEN Caught(l) ELSE Rerun(Report(l, "success", ""))

\* the end of a handler outside any try block: an exception propagates
RerunUnlessRaised(l) ==
    IF l.exc THEN l ELSE Rerun(Report(l, "success", ""))

\* log_action(...) as the statement after the write w, in the same block
LogAfter(w, user, action, details) ==
    IF w.exc THEN w ELSE log_action(w, user, action, details, "log")

\* app.show_login_page, after log_action (app.py:162-167)
LoginLogged(l, outcome) ==
    IF l.exc THEN l
    ELSE IF outcome = "success" THEN Rerun(Report(l, outcome, ""))
    ELSE Halt(Report(l, outcome, ""))

\* app.show_login_page, the submitted form (app.py:147-167): a is what
\* authenticate did
LoginSubmitted(s, a) ==
    IF a.raised
    THEN LoginLogged(log_action([s EXCEPT !.auth = "raise", !.hit = TRUE], {},
                                "login_error", 0, "log"), "login_error")
    ELSE IF a.user # {}
    THEN LoginLogged(log_action([s EXCEPT !.auth = "user", !.user = a.user],
                                a.user, "login", 0, "log"), "success")
    ELSE LoginLogged(log_action([s EXCEPT !.auth = "none"], {},
                                "login_failed", 0, "log"), "login_failed")

\* app.show_login_page
show_login_page(s0, it) ==
    IF it.kind # "login" THEN Halt([s0 EXCEPT !.screen = "login"])
    ELSE LoginSubmitted([s0 EXCEPT !.screen = "login"],
                        authenticate(users, it.username, it.password,
                                     s0.fail = "lookup"))

\* app.show_consent_banner
show_consent_banner(s, it) ==
    IF s.fail = "consent_read" THEN Fail(s)
    ELSE IF get_user_consent(s, TheUser(s).user_id) # {}
    THEN [s EXCEPT !.consent_given = TRUE]
    ELSE IF s.consent_given THEN s
    ELSE IF it.kind = "consent"
    THEN RerunUnlessRaised(
             LogAfter(add_consent_record([s EXCEPT !.screen = "banner",
                                                   !.consent_given = TRUE],
                                         TheUser(s).user_id, "data_processing"),
                      s.user, "gdpr_consent", 0))
    ELSE IF it.kind = "decline"
    THEN Rerun(Report([s EXCEPT !.screen = "banner", !.user = {}], "declined", ""))
    ELSE Halt([s EXCEPT !.screen = "banner"])

\* the Logout button withdrawing the consent the user gave
LoggedOut_withdrawing_consent(l) ==
    IF l.exc THEN l
    ELSE Rerun(Report([l EXCEPT !.user = {}, !.consent_given = FALSE,
                                !.consent_log = <<>>], "success", ""))

\* app.main, the Logout button after log_action (app.py:765-768)
LoggedOut(l) ==
    IF l.exc THEN l
    ELSE Rerun(Report([l EXCEPT !.user = {}, !.consent_given = FALSE], "success", ""))

\* app.main, the sidebar: the Logout button
Sidebar(s0, it, user) ==
    IF it.kind = "logout"
    THEN LoggedOut(log_action([s0 EXCEPT !.screen = "sidebar"], user, "logout", 0,
                              "log"))
    ELSE [s0 EXCEPT !.screen = "sidebar"]

\* what a dashboard shows for a diagnosis once decrypt_value has returned d
\* or raised.  guarded: the call is inside try/except: pass
Shown(d, diagnosis, guarded) ==
    IF d.raised THEN [raised |-> ~guarded, value |-> diagnosis]
    ELSE [raised |-> FALSE, value |-> d.value]

\* the diagnosis column as a dashboard shows it
ShownDiagnosis(diagnosis, available, k, guarded) ==
    IF ~available THEN [raised |-> FALSE, value |-> diagnosis]
    ELSE Shown(decrypt_value(diagnosis, available, k), diagnosis, guarded)

\* app.show_admin_dashboard, the patients table (app.py:222-235) and the CSV
\* (app.py:552-559): decrypt_value applied to every non-empty diagnosis
AdminListingRaises(rows, available, k) ==
    \E p \in rows :
        p.diagnosis # <<>> /\ ShownDiagnosis(p.diagnosis, available, k, FALSE).raised

\* the diagnosis as the form handler stores it (app.py:274-277, 391-394, 677-680)
Encrypted(s, it, encrypt) ==
    IF encrypt THEN encrypt_value(it.form.diagnosis, it.iv, fernet_available, s.k)
    ELSE [raised |-> FALSE, value |-> it.form.diagnosis, k |-> s.k]

\* the form handler's write (app.py:279, 396, 682): e is what encrypt_value did
Written(s, it, e, update) ==
    IF e.raised THEN Raise([s EXCEPT !.k = e.k])
    ELSE IF update
    THEN update_patient([s EXCEPT !.k = e.k], it.sel, it.form.name, it.form.contact,
                        e.value)
    ELSE add_patient([s EXCEPT !.k = e.k], it.form.name, it.form.contact, e.value)

\* the form handlers' try block: encrypt, write, log, rerun
\* (app.py:272-288, 389-405, 675-691)
StoreForm(s, it, encrypt, update, action, details) ==
    TryEnd(LogAfter(Written(s, it, Encrypted(s, it, encrypt), update),
                    s.user, action, details))

\* a submitted form once the validators have answered v
Validated(s, it, v, encrypt, update, action, details) ==
    IF ~v.ok THEN Report(s, "invalid", v.msg)
    ELSE StoreForm(s, it, encrypt, update, action, details)

\* a submitted form: validation first (app.py:259-271, 376-388, 662-674)
SubmitForm(s, it, encrypt, update, action, details) ==
    Validated(s, it, Validate(it.form), encrypt, update, action, details)

AnonSite(i) == <<"anon1", "anon2", "anon3", "anon4", "anon5">>[i]

\* app.py:297-304: one write per patient, in the order of get_all_patients
RECURSIVE AnonymizeLoop(_, _, _)
AnonymizeLoop(s, ids, i) ==
    IF s.exc \/ i > Len(ids) THEN s
    ELSE LET p == PatientById(s.patients, ids[i])
         IN  AnonymizeLoop(
                 set_patient_anonymized(s, p.patient_id, anonymize_name(p.name),
                                        mask_contact(p.contact), AnonSite(i)),
                 ids, i + 1)

\* app.py:306: log_action(..., f"Anonymized {len(patients)} patients")
LogAnonymized(a, user, n) ==
    IF a.exc THEN a
    ELSE log_action([a EXCEPT !.count = n], user, "anonymize_all", n, "log")

\* app.py:296-310 with the patients read at app.py:214
Anonymized(s, ids) ==
    TryEnd(LogAnonymized(AnonymizeLoop(s, ids, 1), s.user, Len(ids)))

\* app.py:294-310: the Anonymize All button
AnonymizeAll(s) == Anonymized(s, IdsDesc(PatientIds(s.patients)))

\* tab 1 after the view has been logged (app.py:217)
Tab1Viewed(l, it) ==
    IF l.exc THEN Halt([l EXCEPT !.exc = FALSE])
    ELSE IF AdminListingRaises(l.patients, fernet_available, l.k) THEN Raise(l)
    ELSE IF it.kind = "add"
    THEN SubmitForm(l, it, it.encrypt_diag /\ fernet_available, FALSE,
                    "add_patient", 0)
    ELSE IF it.kind = "anonymize" THEN AnonymizeAll(l)
    ELSE l

\* app.show_admin_dashboard, tab 1 (app.py:198-310)
AdminTab1(s, it) ==
    IF s.fail = "patients_read" THEN Halt([s EXCEPT !.hit = TRUE])
    ELSE Tab1Viewed(log_action(s, s.user, "view_patients_admin", 0, "log_view"), it)

\* st.session_state.confirm_delete = False, after the log (app.py:428)
ConfirmReset(l) ==
    IF l.exc THEN l ELSE [l EXCEPT !.confirm_delete = FALSE]

\* tab 2, the confirmed deletion (app.py:419-431): d is what delete_patient did
Deleted(d, user, selected_id) ==
    TryEnd(ConfirmReset(LogAfter(d, user, "delete_patient", selected_id)))

\* tab 2, the delete buttons (app.py:413-436): c is the session after the
\* Delete Patient button
DeleteButtons(c, it, user, selected_id) ==
    IF c.confirm_delete /\ it.kind = "confirm_delete"
    THEN Deleted(delete_patient(c, selected_id), user, selected_id)
    ELSE IF c.confirm_delete /\ it.kind = "cancel"
    THEN Rerun(Report([c EXCEPT !.confirm_delete = FALSE], "cancelled", ""))
    ELSE c

\* tab 2 with the patient of the select box (app.py:330-436)
Tab2Selected(s, it, selected_id) ==
    IF it.kind = "update"
    THEN SubmitForm(s, [it EXCEPT !.sel = selected_id], fernet_available, TRUE,
                    "update_patient", selected_id)
    ELSE DeleteButtons(IF it.kind = "delete" THEN [s EXCEPT !.confirm_delete = TRUE]
                       ELSE s,
                       it, s.user, selected_id)

\* app.show_admin_dashboard, tab 2 (app.py:313-436)
AdminTab2(s, it) ==
    IF s.patients = {} THEN Halt(s)
    ELSE Tab2Selected(s, it,
                      IF it.sel \in PatientIds(s.patients) THEN it.sel
                      ELSE IdsDesc(PatientIds(s.patients))[1])

\* app.show_admin_dashboard, tab 3 (app.py:439-480)
AdminTab3(s, it) ==
    IF it.kind = "refresh" THEN Rerun(s) ELSE s

\* the purge logging every run of it twice over, as one entry per record would
Purged_per_record(d, user) ==
    TryEnd(IF d.exc THEN d
           ELSE log_action(log_action(d, user, "gdpr_data_retention", 1, "log"),
                           user, "gdpr_data_retention", 1, "log"))

\* tab 4, after delete_old_records (app.py:526-531)
Purged(d, user) ==
    TryEnd(IF d.exc THEN d
           ELSE log_action(d, user, "gdpr_data_retention", d.count, "log"))

\* app.show_admin_dashboard, tab 4 (app.py:483-539)
AdminTab4(s, it) ==
    IF get_patients_for_deletion(s, RetentionDays) # <<>> /\ it.kind = "purge"
    THEN Purged(delete_old_records(s, RetentionDays), s.user)
    ELSE s

\* app.show_admin_dashboard, tab 5 (app.py:542-597)
AdminTab5(s, it) ==
    IF s.patients = {} THEN s
    ELSE IF AdminListingRaises(s.patients, fernet_available, s.k) THEN Raise(s)
    ELSE log_action(s, s.user, "export_csv", 0, "log_export")

\* the statements of a `with tab:` block run unless the script has ended
Tab2From(t, it) == IF t.halt THEN t ELSE AdminTab2(t, it)
Tab3From(t, it) == IF t.halt THEN t ELSE AdminTab3(t, it)
Tab4From(t, it) == IF t.halt THEN t ELSE AdminTab4(t, it)
Tab5From(t, it) == IF t.halt THEN t ELSE AdminTab5(t, it)

\* app.show_admin_dashboard
show_admin_dashboard(s0, it) ==
    Halt(Tab5From(Tab4From(Tab3From(Tab2From(
             AdminTab1([s0 EXCEPT !.screen = "admin"], it), it), it), it), it))

\* the doctor's row falling back on the raw name and contact
DoctorRow_raw_fallback(p, available, k) ==
    [patient_id |-> p.patient_id,
     anonymized_name |-> IF p.anonymized_name # {} /\ p.anonymized_name # {<<>>}
                         THEN CHOOSE x \in p.anonymized_name : TRUE
                         ELSE p.name,
     anonymized_contact |-> IF p.anonymized_contact # {} /\ p.anonymized_contact # {<<>>}
                            THEN CHOOSE x \in p.anonymized_contact : TRUE
                            ELSE p.contact,
     diagnosis |-> IF p.anonymized_name # {} /\ p.anonymized_name # {<<>>}
                   THEN Confidential
                   ELSE ShownDiagnosis(p.diagnosis, available, k, TRUE).value,
     date_added |-> p.date_added]

\* the doctor's row with the redaction decided by anonymized_contact
DoctorRow_by_contact(p, available, k) ==
    [patient_id |-> p.patient_id,
     anonymized_name |-> IF p.anonymized_name # {} /\ p.anonymized_name # {<<>>}
                         THEN CHOOSE x \in p.anonymized_name : TRUE
                         ELSE NotAnonymized,
     anonymized_contact |-> IF p.anonymized_contact # {} /\ p.anonymized_contact # {<<>>}
                            THEN CHOOSE x \in p.anonymized_contact : TRUE
                            ELSE NotAnonymized,
     diagnosis |-> IF p.anonymized_contact # {} /\ p.anonymized_contact # {<<>>}
                   THEN Confidential
                   ELSE ShownDiagnosis(p.diagnosis, available, k, TRUE).value,
     date_added |-> p.date_added]

\* app.show_doctor_dashboard, one row (app.py:617-636)
DoctorRow(p, available, k) ==
    [patient_id |-> p.patient_id,
     anonymized_name |-> IF p.anonymized_name # {} /\ p.anonymized_name # {<<>>}
                         THEN CHOOSE x \in p.anonymized_name : TRUE
                         ELSE NotAnonymized,
     anonymized_contact |-> IF p.anonymized_contact # {} /\ p.anonymized_contact # {<<>>}
                            THEN CHOOSE x \in p.anonymized_contact : TRUE
                            ELSE NotAnonymized,
     diagnosis |-> IF p.anonymized_name # {} /\ p.anonymized_name # {<<>>}
                   THEN Confidential
                   ELSE ShownDiagnosis(p.diagnosis, available, k, TRUE).value,
     date_added |-> p.date_added]

\* app.show_receptionist_dashboard, one row (app.py:710-723)
ReceptionistRow(p, available, k) ==
    [patient_id |-> p.patient_id,
     diagnosis |-> ShownDiagnosis(p.diagnosis, available, k, TRUE).value,
     date_added |-> p.date_added]

\* a dashboard's patients list: get_all_patients, then the view is logged;
\* except Exception as e: st.error(...)
ListViewed(s, action) ==
    IF s.fail = "patients_read" THEN Halt([s EXCEPT !.hit = TRUE])
    ELSE Halt([log_action(s, s.user, action, 0, "log_view") EXCEPT !.exc = FALSE])

\* app.show_doctor_dashboard
show_doctor_dashboard(s0, it) ==
    ListViewed([s0 EXCEPT !.screen = "doctor"], "view_patients_doctor")

\* app.show_receptionist_dashboard, the list under the form (app.py:697-728)
RecepList(a) ==
    IF a.halt THEN a ELSE ListViewed(a, "view_patients_recep")

\* app.show_receptionist_dashboard
show_receptionist_dashboard(s0, it) ==
    RecepList(IF it.kind = "add"
              THEN SubmitForm([s0 EXCEPT !.screen = "receptionist"], it,
                              fernet_available, FALSE, "add_patient",
                              Len(it.form.name))
              ELSE [s0 EXCEPT !.screen = "receptionist"])

\* main handing the administrator's dashboard to every signed-in user
Dashboard_admin_for_all(sb, it, role) ==
    IF sb.halt THEN sb ELSE show_admin_dashboard(sb, it)

\* app.main, the dashboard of the role (app.py:771-780)
Dashboard(sb, it, role) ==
    IF sb.halt THEN sb
    ELSE IF role = "admin" THEN show_admin_dashboard(sb, it)
    ELSE IF role = "doctor" THEN show_doctor_dashboard(sb, it)
    ELSE IF role = "receptionist" THEN show_receptionist_dashboard(sb, it)
    ELSE Halt(sb)

\* app.main, after the consent banner (app.py:748-780)
AfterBanner(b, it, user, role) ==
    Dashboard(IF b.halt THEN b ELSE Sidebar(b, it, user), it, role)

\* app.main
main(s, it) ==
    IF s.user = {} THEN show_login_page(s, it)
    ELSE AfterBanner(show_consent_banner(s, it), it, s.user, TheUser(s).role)

\* app.py:46-48, then main(): one execution of the script
Script(s, it) ==
    main([s EXCEPT !.k = initialize_encryption_key(fernet_available, s.k),
                   !.screen = "blank"], it)

\* the run the user's action starts and, after st.experimental_rerun(), the run
\* that follows it at once, with no widget used and no injected failure
FollowRerun(r1) ==
    IF r1.rerun /\ ~r1.exc
    THEN Script([r1 EXCEPT !.halt = FALSE, !.rerun = FALSE, !.fail = "none"], NoIt)
    ELSE r1

RunScript(s, it) == FollowRerun(Script(s, it))

(***************************************************************************)
(* The state machine: one action per thing a user or the environment does  *)
(***************************************************************************)
MaxLogs == 7
MaxPatients == 2
MaxNow == 91
MaxFaults == 1
MaxLogins == 2
MaxMigrations == 2

Roles == {"admin", "doctor", "receptionist"}
ClockJumps == {RetentionDays, RetentionDays + 1}

NoLast == [op |-> "none", outcome |-> "ignored", msg |-> "", auth |-> "-",
           count |-> 0, exc |-> FALSE, form |-> Form(<<>>, <<>>, <<>>), sel |-> 0,
           fail |-> "none"]

RunState(fail) ==
    [patients |-> patients, next_patient_id |-> next_patient_id, logs |-> logs,
     consent_log |-> consent_log, user |-> st_user, consent_given |-> consent_given,
     confirm_delete |-> confirm_delete, screen |-> screen, k |-> KeyState,
     now |-> now, fail |-> fail, hit |-> FALSE, exc |-> FALSE, halt |-> FALSE, rerun |-> FALSE,
     outcome |-> "ignored", msg |-> "", auth |-> "-", count |-> 0]

\* the user does `it`; the script runs; the tables, the session and the screen
\* are what the run leaves
UserDoes(it, fail) ==
    \E s \in {RunScript(RunState(fail), it)} :
        /\ Len(s.logs) <= log_base + MaxLogs
        /\ fail # "none" => s.hit /\ faults < MaxFaults
        /\ faults' = IF fail # "none" THEN faults + 1 ELSE faults
        /\ patients' = s.patients
        /\ next_patient_id' = s.next_patient_id
        /\ logs' = s.logs
        /\ consent_log' = s.consent_log
        /\ st_user' = s.user
        /\ consent_given' = s.consent_given
        /\ confirm_delete' = s.confirm_delete
        /\ screen' = s.screen
        /\ enc_key' = s.k.enc_key
        /\ key_file' = s.k.key_file
        /\ next_key' = s.k.next_key
        /\ last' = [op |-> it.kind, outcome |-> s.outcome, msg |-> s.msg,
                    auth |-> s.auth, count |-> s.count, exc |-> s.exc,
                    form |-> IF s.outcome = "invalid" THEN it.form ELSE NoIt.form,
                    sel |-> it.sel, fail |-> fail]
        /\ UNCHANGED <<users, auth, ver, mig, fernet_available, enc, dec, now, log_base, ret>>

\* a browser opens the page: a new session, and the first run of the script
OpenPage ==
    /\ screen \in {"none", "blank"}
    /\ \E s \in {RunScript([RunState("none") EXCEPT !.user = {}, !.consent_given = FALSE,
                                                    !.confirm_delete = FALSE], NoIt)} :
           /\ st_user' = s.user
           /\ consent_given' = s.consent_given
           /\ confirm_delete' = s.confirm_delete
           /\ screen' = s.screen
           /\ enc_key' = s.k.enc_key
           /\ key_file' = s.k.key_file
           /\ next_key' = s.k.next_key
    /\ last' = [NoLast EXCEPT !.op = "open"]
    /\ UNCHANGED <<users, auth, ver, mig, fernet_available, enc, dec, now, dbVars, faults, log_base,
                   ret>>

\* the login attempts the audit log has recorded
LoginAttempts ==
    Cardinality({i \in DOMAIN logs :
                    i > log_base /\ logs[i].action \in {"login", "login_failed", "login_error"}})

Login(username, password, fail) ==
    /\ screen = "login"
    /\ LoginAttempts < MaxLogins
    /\ UserDoes([NoIt EXCEPT !.kind = "login", !.username = username,
                             !.password = password], fail)

Consent(fail) ==
    /\ screen = "banner"
    /\ UserDoes([NoIt EXCEPT !.kind = "consent"], fail)

Decline ==
    /\ screen = "banner"
    /\ UserDoes([NoIt EXCEPT !.kind = "decline"], "none")

Logout(fail) ==
    /\ screen \in Roles \cup {"sidebar"}
    /\ UserDoes([NoIt EXCEPT !.kind = "logout"], fail)

\* the Search button with no search term: the page is drawn again
Search(fail) ==
    /\ screen = "admin"
    /\ UserDoes([NoIt EXCEPT !.kind = "search"], fail)

AddPatientAdmin(form, encrypt_diag, iv, fail) ==
    /\ screen = "admin"
    /\ next_patient_id <= MaxPatients
    /\ encrypt_diag => fernet_available
    /\ UserDoes([NoIt EXCEPT !.kind = "add", !.form = form,
                             !.encrypt_diag = encrypt_diag, !.iv = iv], fail)

AddPatientReceptionist(form, iv, fail) ==
    /\ screen = "receptionist"
    /\ next_patient_id <= MaxPatients
    /\ UserDoes([NoIt EXCEPT !.kind = "add", !.form = form, !.iv = iv], fail)

AnonymizeAllNow(fail) ==
    /\ screen = "admin"
    /\ UserDoes([NoIt EXCEPT !.kind = "anonymize"], fail)

UpdatePatient(sel, form, iv, fail) ==
    /\ screen = "admin"
    /\ sel \in PatientIds(patients)
    /\ UserDoes([NoIt EXCEPT !.kind = "update", !.sel = sel, !.form = form,
                             !.iv = iv], fail)

DeletePatientClick(sel) ==
    /\ screen = "admin"
    /\ sel \in PatientIds(patients)
    /\ UserDoes([NoIt EXCEPT !.kind = "delete", !.sel = sel], "none")

ConfirmDelete(sel, fail) ==
    /\ screen = "admin"
    /\ confirm_delete
    /\ sel \in PatientIds(patients)
    /\ UserDoes([NoIt EXCEPT !.kind = "confirm_delete", !.sel = sel], fail)

CancelDelete ==
    /\ screen = "admin"
    /\ confirm_delete
    /\ patients # {}
    /\ UserDoes([NoIt EXCEPT !.kind = "cancel"], "none")

RefreshLogs ==
    /\ screen = "admin"
    /\ patients # {}
    /\ UserDoes([NoIt EXCEPT !.kind = "refresh"], "none")

\* the Download Patients CSV button (app.py:562-568): the browser saves the
\* file the last run made, and the script runs again
DownloadCsv ==
    /\ screen = "admin"
    /\ patients # {}
    /\ UserDoes([NoIt EXCEPT !.kind = "download"], "none")

DeleteOldRecords(fail) ==
    /\ screen = "admin"
    /\ get_patients_for_deletion(RunState("none"), RetentionDays) # <<>>
    /\ UserDoes([NoIt EXCEPT !.kind = "purge"], fail)

\* time passes; with no patient on file the passing of time leaves nothing to
\* observe, and is not stepped
AdvanceClock(d) ==
    /\ patients # {}
    /\ now + d <= MaxNow
    /\ now' = now + d
    /\ last' = [NoLast EXCEPT !.op = "clock"]
    /\ UNCHANGED <<users, auth, ver, mig, keyVars, enc, dec, dbVars, sessionVars, faults, log_base,
                   ret>>

\* the environment removes encryption.key; with no ciphertext on file the loss
\* of the key leaves nothing to observe, and is not stepped
RemoveKeyFile ==
    /\ key_file # "missing"
    /\ \E p \in patients : IsTokenText(p.diagnosis)
    /\ next_key < MaxKeys
    /\ key_file' = "missing"
    /\ last' = [NoLast EXCEPT !.op = "rmkey"]
    /\ UNCHANGED <<users, auth, ver, mig, fernet_available, enc_key, next_key, enc, dec,
                   dbVars, now, sessionVars, faults, log_base, ret>>

AnonFails == {AnonSite(i) : i \in 1..MaxPatients}

LoginInputs == { <<"admin", P_admin>>, <<"admin", P_Admin>>, <<"tulaib", P_tulaib>>,
                 <<"hammad", P_hammad>> }

\* the forms the application is driven with: two that pass, and forms whose
\* first failing field is the name, the contact and the diagnosis
AppValid == { Form(N_Al, C_555, T_flu), Form(N_Bo, C_666, T_cold) }
AppInvalid == { Form(N_sentinel, C_123, D_xy), Form(N_Al, C_masked, D_xy),
                Form(N_Al, C_555, D_xy) }
AppIV == "iv1"

(***************************************************************************)
(* The databases a behaviour starts from: the one init_db leaves, and the  *)
(* ones the application itself makes of it, each computed by running the   *)
(* script on the interactions of a session that made it.                   *)
(***************************************************************************)
FreshInstall ==
    [patients |-> {}, next_patient_id |-> 1, logs |-> <<>>, consent_log |-> <<>>,
     user |-> {}, consent_given |-> FALSE, confirm_delete |-> FALSE,
     screen |-> "none",
     k |-> [enc_key |-> "None", key_file |-> "missing", next_key |-> 0],
     now |-> 0, fail |-> "none", hit |-> FALSE, exc |-> FALSE, halt |-> FALSE,
     rerun |-> FALSE, outcome |-> "ignored", msg |-> "", auth |-> "-", count |-> 0]

\* the state a run leaves, as the next run finds it
NextRun(s) ==
    [s EXCEPT !.fail = "none", !.hit = FALSE, !.exc = FALSE, !.halt = FALSE,
              !.rerun = FALSE, !.outcome = "ignored", !.msg = "", !.auth = "-",
              !.count = 0]

RECURSIVE Play(_, _)
Play(s, its) ==
    IF its = <<>> THEN s
    ELSE Play(RunScript(NextRun(s), Head(its)), Tail(its))

\* the administrator signs in, consents and adds two patients, one with the
\* diagnosis encrypted and one without
AdminSession ==
    << [NoIt EXCEPT !.kind = "login", !.username = "admin", !.password = P_admin],
       [NoIt EXCEPT !.kind = "consent"],
       [NoIt EXCEPT !.kind = "add", !.form = Form(N_Al, C_555, T_flu),
                    !.encrypt_diag = TRUE, !.iv = AppIV],
       [NoIt EXCEPT !.kind = "add", !.form = Form(N_Bo, C_666, T_cold),
                    !.encrypt_diag = FALSE, !.iv = AppIV] >>

\* ... then anonymizes all patients and signs out
AnonymizeSession ==
    AdminSession \o << [NoIt EXCEPT !.kind = "anonymize"],
                        [NoIt EXCEPT !.kind = "logout"] >>

Seeds ==
    { FreshInstall, Play(FreshInstall, AdminSession),
      Play(FreshInstall, AnonymizeSession) }

Init ==
    /\ users = HashedUsers
    /\ auth = NoAuth /\ ver = NoVer /\ mig = NoMig /\ enc = NoEnc /\ dec = NoDec
    /\ fernet_available = TRUE
    /\ now = 0
    /\ last = NoLast
    /\ faults = 0
    /\ ret = NoRet
    /\ \E s \in Seeds :
          /\ patients = s.patients
          /\ next_patient_id = s.next_patient_id
          /\ logs = s.logs
          /\ consent_log = s.consent_log
          /\ st_user = s.user
          /\ consent_given = s.consent_given
          /\ confirm_delete = s.confirm_delete
          /\ screen = s.screen
          /\ enc_key = s.k.enc_key
          /\ key_file = s.k.key_file
          /\ next_key = s.k.next_key
          /\ log_base = Len(s.logs)

Next ==
    \/ OpenPage
    \/ \E c \in LoginInputs, f \in {"none", "lookup", "log"} : Login(c[1], c[2], f)
    \/ \E f \in {"none", "consent_read", "consent_write", "log"} : Consent(f)
    \/ Decline
    \/ \E f \in {"none", "log"} : Logout(f)
    \/ \E f \in {"none", "patients_read", "log_view", "log_export"} : Search(f)
    \/ \E form \in AppValid, e \in BOOLEAN, f \in {"none", "insert", "log"} :
          AddPatientAdmin(form, e, AppIV, f)
    \/ \E form \in AppInvalid : AddPatientAdmin(form, TRUE, AppIV, "none")
    \/ \E form \in AppValid, f \in {"none", "insert", "log", "log_view"} :
          AddPatientReceptionist(form, AppIV, f)
    \/ \E form \in AppInvalid : AddPatientReceptionist(form, AppIV, "none")
    \/ \E f \in {"none", "log"} \cup AnonFails : AnonymizeAllNow(f)
    \/ \E sel \in 1..MaxPatients, form \in AppValid, f \in {"none", "update", "log"} :
          UpdatePatient(sel, form, AppIV, f)
    \/ \E sel \in 1..MaxPatients, form \in AppInvalid :
          UpdatePatient(sel, form, AppIV, "none")
    \/ \E sel \in 1..MaxPatients : DeletePatientClick(sel)
    \/ \E sel \in 1..MaxPatients, f \in {"none", "delete", "log"} : ConfirmDelete(sel, f)
    \/ CancelDelete
    \/ RefreshLogs
    \/ DownloadCsv
    \/ \E f \in {"none", "purge", "log"} : DeleteOldRecords(f)
    \/ \E d \in ClockJumps : AdvanceClock(d)
    \/ RemoveKeyFile

Spec == Init /\ [][Next]_vars

(***************************************************************************)
(* SpecCred: the credential verifier applied to bounded inputs             *)
(***************************************************************************)
AppIdle ==
    /\ patients = {} /\ next_patient_id = 1 /\ logs = <<>> /\ consent_log = <<>>
    /\ now = 0
    /\ st_user = {} /\ consent_given = FALSE /\ confirm_delete = FALSE
    /\ screen = "none"
    /\ last = NoLast
    /\ faults = 0
    /\ log_base = 0
    /\ ret = NoRet

InitCred ==
    /\ users \in UserTables
    /\ auth = NoAuth
    /\ ver = NoVer
    /\ mig = NoMig
    /\ fernet_available = TRUE
    /\ enc_key = "None" /\ key_file = "missing" /\ next_key = 0
    /\ enc = NoEnc /\ dec = NoDec
    /\ AppIdle

Authenticate(username, password, dbFails) ==
    /\ auth' = [done |-> TRUE, username |-> username, password |-> password]
                 @@ authenticate(users, username, password, dbFails)
    /\ UNCHANGED <<users, ver, mig, keyVars, cryptoVars, appVars>>

VerifyPassword(plain, stored) ==
    /\ ver' = [done |-> TRUE, plain |-> plain, stored |-> stored,
               result |-> verify_password(plain, stored)]
    /\ UNCHANGED <<users, auth, mig, keyVars, cryptoVars, appVars>>

\* python init_db.py is run; what authenticate returned for the table as it
\* was is no longer an observation of the table users
Migrate ==
    /\ mig.runs < MaxMigrations
    /\ users' = init_db(users)
    /\ mig' = [runs |-> mig.runs + 1,
               original |-> IF mig.runs = 0 THEN users ELSE mig.original]
    /\ auth' = NoAuth
    /\ UNCHANGED <<ver, keyVars, cryptoVars, appVars>>

NextCred ==
    \/ Migrate
    \/ \E u \in Usernames, p \in Passwords, f \in BOOLEAN : Authenticate(u, p, f)
    \/ \E p \in Passwords, s \in StoredValues : VerifyPassword(p, s)

SpecCred == InitCred /\ [][NextCred]_vars

(***************************************************************************)
(* SpecCrypto: the key lifecycle and encrypt_value / decrypt_value applied *)
(* to bounded inputs, called as app.py calls them (only when               *)
(* FERNET_AVAILABLE).                                                      *)
(***************************************************************************)
\* what may be handed to decrypt_value: text never encrypted, tokens made under
\* any key, tokens of tokens, and tokens changed after they were made
TokenInputs ==
    LET made == {FernetEncrypt(KeyOrder[i], "iv1", v) : i \in 1..MaxKeys, v \in PlainTexts}
    IN  PlainTexts \cup made \cup {Corrupted(t) : t \in made}
          \cup {FernetEncrypt(KeyOrder[1], "iv2", FernetEncrypt(KeyOrder[1], "iv1", T_flu))}


InitKeys ==
    /\ fernet_available \in BOOLEAN
    /\ enc_key = "None"
    /\ key_file = "missing"
    /\ next_key = 0

SetKeyState(k) ==
    /\ enc_key' = k.enc_key
    /\ key_file' = k.key_file
    /\ next_key' = k.next_key

\* app.py:46-48, at the start of every run of the script
StartupInitializeKey ==
    /\ fernet_available
    /\ key_file = "missing" => next_key < MaxKeys
    /\ SetKeyState(initialize_encryption_key(fernet_available, KeyState))
    /\ UNCHANGED <<fernet_available, enc, dec>>

\* the environment removes encryption.key
KeyFileRemoved ==
    /\ key_file # "missing"
    /\ next_key < MaxKeys
    /\ key_file' = "missing"
    /\ UNCHANGED <<fernet_available, enc_key, next_key, enc, dec>>

\* the server process is started again: module globals are fresh
RestartProcess ==
    /\ enc_key # "None"
    /\ enc_key' = "None"
    /\ UNCHANGED <<fernet_available, key_file, next_key, enc, dec>>

EncryptValue(v, iv) ==
    /\ fernet_available
    /\ enc_key = "None" /\ key_file = "missing" => next_key < MaxKeys
    /\ LET r == encrypt_value(v, iv, fernet_available, KeyState)
       IN  /\ enc' = [done |-> TRUE, plain |-> v, raised |-> r.raised,
                      token |-> r.value, key |-> r.k.enc_key]
           /\ SetKeyState(r.k)
    /\ UNCHANGED <<fernet_available, dec>>

DecryptValue(t) ==
    /\ fernet_available
    /\ enc_key = "None" /\ key_file = "missing" => next_key < MaxKeys
    /\ LET r == decrypt_value(t, fernet_available, KeyState)
       IN  /\ dec' = [done |-> TRUE, token |-> t, raised |-> r.raised,
                      value |-> r.value, key |-> r.k.enc_key]
           /\ SetKeyState(r.k)
    /\ UNCHANGED <<fernet_available, enc>>

NextCrypto ==
    \/ StartupInitializeKey /\ UNCHANGED <<credVars, appVars>>
    \/ KeyFileRemoved /\ UNCHANGED <<credVars, appVars>>
    \/ RestartProcess /\ UNCHANGED <<credVars, appVars>>
    \/ \E v \in PlainTexts, iv \in IVs : EncryptValue(v, iv) /\ UNCHANGED <<credVars, appVars>>
    \/ \E t \in TokenInputs \cup {enc.token} : DecryptValue(t) /\ UNCHANGED <<credVars, appVars>>

InitCrypto ==
    /\ InitKeys
    /\ users = HashedUsers /\ auth = NoAuth /\ ver = NoVer /\ mig = NoMig
    /\ enc = NoEnc /\ dec = NoDec
    /\ AppIdle

SpecCrypto == InitCrypto /\ [][NextCrypto]_vars

(***************************************************************************)
(* SpecRetention: get_patients_for_deletion and delete_old_records applied *)
(* to the tables that adding records as time passes makes                  *)
(***************************************************************************)
MaxRetained == 3
MaxClock == 3
RetentionThresholds == {1, 2}

InitRetention ==
    /\ users = HashedUsers /\ auth = NoAuth /\ ver = NoVer /\ mig = NoMig
    /\ fernet_available = TRUE
    /\ enc_key = "None" /\ key_file = "missing" /\ next_key = 0
    /\ enc = NoEnc /\ dec = NoDec
    /\ AppIdle

\* db.add_patient called with a form that passed validation
RecordAdded(form) ==
    /\ next_patient_id <= MaxRetained
    /\ \E s \in {add_patient(RunState("none"), form.name, form.contact, form.diagnosis)} :
          /\ patients' = s.patients
          /\ next_patient_id' = s.next_patient_id
    /\ UNCHANGED <<credVars, keyVars, cryptoVars, logs, consent_log, now, sessionVars,
                   last, faults, log_base, ret>>

\* a day passes
DayPassed ==
    /\ now < MaxClock
    /\ now' = now + 1
    /\ UNCHANGED <<credVars, keyVars, cryptoVars, dbVars, sessionVars, last, faults,
                   log_base, ret>>

RecordsPastRetention(days) ==
    /\ \E rows \in {get_patients_for_deletion(RunState("none"), days)} :
          ret' = [op |-> "list", days |-> days, at |-> now, before |-> patients,
                  after |-> patients, rows |-> rows, count |-> Len(rows)]
    /\ UNCHANGED <<credVars, keyVars, cryptoVars, dbVars, now, sessionVars, last, faults,
                   log_base>>

PurgePastRetention(days) ==
    /\ \E s \in {delete_old_records(RunState("none"), days)} :
          /\ patients' = s.patients
          /\ ret' = [op |-> "purge", days |-> days, at |-> now, before |-> patients,
                     after |-> s.patients, rows |-> <<>>, count |-> s.count]
    /\ UNCHANGED <<credVars, keyVars, cryptoVars, next_patient_id, logs, consent_log, now,
                   sessionVars, last, faults, log_base>>

NextRetention ==
    \/ \E form \in AppValid : RecordAdded(form)
    \/ DayPassed
    \/ \E days \in RetentionThresholds : RecordsPastRetention(days)
    \/ \E days \in RetentionThresholds : PurgePastRetention(days)

SpecRetention == InitRetention /\ [][NextRetention]_vars

(***************************************************************************)
(* Properties of Spec                                                      *)
(***************************************************************************)
\* the names and contacts a record could have had instead
OtherNames == {f.name : f \in AppValid \cup AppInvalid}
OtherContacts == {f.contact : f \in AppValid \cup AppInvalid}

\* C1: for every patient record of every reachable state, the row of the
\* doctor view has exactly the fields patient_id, anonymized_name (or
\* NOT_ANONYMIZED), anonymized_contact (or NOT_ANONYMIZED), diagnosis and
\* date_added, the row of the receptionist view exactly patient_id, diagnosis
\* and date_added; no text in either row is the record's raw name or raw
\* contact; and a record that differs only in its raw name and contact gives
\* the same two rows.
C1_ViewsHideIdentity ==
    \A p \in patients :
        LET d == DoctorRow(p, fernet_available, KeyState)
            r == ReceptionistRow(p, fernet_available, KeyState)
        IN  /\ DOMAIN d = {"patient_id", "anonymized_name", "anonymized_contact",
                           "diagnosis", "date_added"}
            /\ DOMAIN r = {"patient_id", "diagnosis", "date_added"}
            /\ d.patient_id = p.patient_id /\ r.patient_id = p.patient_id
            /\ d.date_added = p.date_added /\ r.date_added = p.date_added
            /\ d.anonymized_name \in p.anonymized_name \cup {NotAnonymized}
            /\ d.anonymized_contact \in p.anonymized_contact \cup {NotAnonymized}
            /\ {d.anonymized_name, d.anonymized_contact, d.diagnosis, r.diagnosis}
                   \cap {p.name, p.contact} = {}
            /\ \A n \in OtherNames, c \in OtherContacts :
                  /\ DoctorRow([p EXCEPT !.name = n, !.contact = c],
                               fernet_available, KeyState) = d
                  /\ ReceptionistRow([p EXCEPT !.name = n, !.contact = c],
                                     fernet_available, KeyState) = r

\* the doctor's dashboard lists a patient that has not been anonymized
C1_Witness ==
    /\ screen = "doctor"
    /\ \E p \in patients : p.anonymized_name = {} /\ p.name = N_Al

\* C2: in the doctor's row the diagnosis is the redaction sentinel if and only
\* if the record's anonymized_name is not absent; anonymized_contact has no
\* part in it: with anonymized_name absent the row shows the decrypted
\* diagnosis whether anonymized_contact is set or not.
C2_RedactionByName ==
    \A p \in patients :
        \A an \in {{}, anonymize_name(p.name)}, ac \in {{}, mask_contact(p.contact)} :
            LET q == [p EXCEPT !.anonymized_name = an, !.anonymized_contact = ac]
                key == get_encryption_key(fernet_available, KeyState).enc_key
                shown == DoctorRow(q, fernet_available, KeyState).diagnosis
            IN  /\ (shown = Confidential) <=> (an # {})
                /\ an = {} => shown = IF FernetValid(key, q.diagnosis)
                                      THEN FernetPlain(q.diagnosis)
                                      ELSE q.diagnosis

\* the doctor's dashboard lists an anonymized patient
C2_Witness ==
    /\ screen = "doctor"
    /\ \E p \in patients : p.anonymized_name # {} /\ p.anonymized_contact # {}

\* the audit action each operation is recorded under
AuditActionOf(op) ==
    CASE op = "login" -> "login"
      [] op = "logout" -> "logout"
      [] op = "consent" -> "gdpr_consent"
      [] op = "add" -> "add_patient"
      [] op = "update" -> "update_patient"
      [] op = "confirm_delete" -> "delete_patient"
      [] op = "anonymize" -> "anonymize_all"
      [] op = "purge" -> "gdpr_data_retention"
      [] OTHER -> "-"

\* the entries a step appends to the audit log
Appended == SubSeq(logs', Len(logs) + 1, Len(logs'))

\* a step in which the script ran and reported the operation done
Succeeded == last'.outcome = "success" /\ AuditActionOf(last'.op) # "-"

\* C3: every sensitive operation that completes successfully (login, logout,
\* add, update, delete, anonymize-all, retention purge, consent) appends
\* exactly one audit entry of that operation, attributed to the acting user; a
\* purge that removes N records appends one entry stating N, an anonymize-all
\* over N records one entry stating N.
C3_OneEntryPerOperation ==
    [][ Succeeded =>
          LET actor == IF last'.op = "login" THEN st_user' ELSE st_user
              mine == {i \in DOMAIN Appended :
                          Appended[i].action = AuditActionOf(last'.op)}
          IN  /\ Cardinality(mine) = 1
              /\ actor # {}
              /\ \A i \in mine :
                    /\ Appended[i].user_id = {u.user_id : u \in actor}
                    /\ Appended[i].role = {u.role : u \in actor}
                    /\ last'.op = "purge" =>
                          /\ Appended[i].details = Cardinality(patients \ patients')
                          /\ patients' \subseteq patients
                    /\ last'.op = "anonymize" =>
                          Appended[i].details = Cardinality(patients)
      ]_vars

\* a purge has removed two records and reported it
C3_Witness ==
    last.op = "purge" /\ last.outcome = "success" /\ last.count = 2 /\ patients = {}

\* C4: the audit log is append-only: every step leaves the entries there were
\* as they were and in their order, and at most adds entries after them; the
\* deletion of a patient, the retention purge, anonymize-all and logout
\* included.
C4_AuditAppendOnly ==
    [][ /\ Len(logs') >= Len(logs)
        /\ SubSeq(logs', 1, Len(logs)) = logs ]_vars

\* a patient has been deleted and the log still holds the entries of before
C4_Witness ==
    /\ last.op = "confirm_delete" /\ last.outcome = "success"
    /\ Len(logs) > log_base /\ log_base > 0

\* the entries of a login attempt among those a step appends
LoginEntries ==
    {i \in DOMAIN Appended :
        Appended[i].action \in {"login", "login_failed", "login_error"}}

\* C5: a login attempt appends exactly one audit entry: 'login' iff
\* authenticate returned a user, 'login_failed' iff it returned none,
\* 'login_error' iff the lookup raised; the 'login' entry carries the user's id
\* and role, the other two carry neither; and the session user is set only
\* where the 'login' entry is written.  (An attempt whose audit write itself
\* raises is asked for no entry, only for no session.)
C5_LoginAudit ==
    [][ last'.op = "login" =>
          /\ ~last'.exc =>
                /\ Cardinality(LoginEntries) = 1
                /\ \A i \in LoginEntries :
                      /\ (Appended[i].action = "login") <=> (last'.auth = "user")
                      /\ (Appended[i].action = "login_failed") <=> (last'.auth = "none")
                      /\ (Appended[i].action = "login_error") <=> (last'.auth = "raise")
                      /\ Appended[i].action = "login" =>
                            /\ Appended[i].user_id = {u.user_id : u \in st_user'}
                            /\ Appended[i].role = {u.role : u \in st_user'}
                      /\ Appended[i].action # "login" =>
                            Appended[i].user_id = {} /\ Appended[i].role = {}
          /\ st_user' # {} =>
                \E i \in LoginEntries : Appended[i].action = "login"
      ]_vars

\* the message of the first field of the form that fails its validator
FirstFailure(form) ==
    IF ~validate_name(form.name).ok THEN validate_name(form.name).msg
    ELSE IF ~validate_contact(form.contact).ok THEN validate_contact(form.contact).msg
    ELSE validate_diagnosis(form.diagnosis).msg

\* the diagnosis a stored value was made of
StoredPlain(diagnosis) ==
    IF IsTokenText(diagnosis) THEN FernetPlain(diagnosis) ELSE diagnosis

\* C8: when a validator rejects a submitted add-patient or update-patient
\* form, the patient table and the audit log are left as they were and the
\* message of the first failing field is reported; and no patient row is ever
\* written whose name, contact or plaintext diagnosis fails its validator.
C8_RejectionChangesNothing ==
    [][ /\ last'.outcome = "invalid" =>
              /\ patients' = patients
              /\ logs' = logs
              /\ last'.msg = FirstFailure(last'.form)
        /\ \A p \in patients' :
              /\ validate_name(p.name).ok
              /\ validate_contact(p.contact).ok
              /\ validate_diagnosis(StoredPlain(p.diagnosis)).ok
      ]_vars


\* C11: in every reachable state each patient record has anonymized_name and
\* anonymized_contact both absent or both present, whatever adds, updates,
\* anonymize-alls (one that fails partway included), deletions and purges
\* came before.
C11_AnonymizedFieldsTogether ==
    \A p \in patients : (p.anonymized_name = {}) <=> (p.anonymized_contact = {})

\* an anonymize-all failed after its first write: one record anonymized, one not
C11_Witness ==
    /\ last.op = "anonymize" /\ last.outcome = "error"
    /\ \E p \in patients : p.anonymized_name # {}
    /\ \E p \in patients : p.anonymized_name = {}

\* a record with anonymized_name and anonymized_contact present, which the
\* doctor's dashboard shows with the redaction sentinel for a diagnosis
IsRedacted(q, k) ==
    /\ q.anonymized_name # {} /\ q.anonymized_contact # {}
    /\ DoctorRow(q, fernet_available, k).diagnosis = Confidential

\* C12: an anonymize-all that completes without error leaves every record
\* that existed when it started with anonymized_name and anonymized_contact
\* present and the redaction sentinel for its diagnosis in the doctor's view;
\* and a record in that condition stays in it through every later step, adds
\* and updates included, for as long as it exists.
C12_AnonymizeAllSticks ==
    [][ /\ (last'.op = "anonymize" /\ last'.outcome = "success") =>
              \A p \in patients :
                  \E q \in patients' : q.patient_id = p.patient_id /\ IsRedacted(q, KeyState')
        /\ \A p \in patients : IsRedacted(p, KeyState) =>
              \A q \in patients' : q.patient_id = p.patient_id => IsRedacted(q, KeyState')
      ]_vars

\* an anonymized record has been updated, and its name is no longer the one it
\* was anonymized under
C12_Witness ==
    /\ last.op = "update" /\ last.outcome = "success"
    /\ \E p \in patients :
          /\ p.patient_id = last.sel
          /\ p.anonymized_name # {}
          /\ p.anonymized_name # anonymize_name(p.name)

\* the records of a table dated strictly before the cutoff of a call
PastRetention(rows, at, days) == {p \in rows : p.date_added < at - days}

\* hasConsented: the consent log holds a record of the user
HasConsented(records, user_id) ==
    \E i \in DOMAIN records : records[i].user_id = user_id

\* a step in which the script ran
ScriptRan == last'.op \notin {"clock", "rmkey"}

\* C14: consent is monotone.  Every step leaves the consent records there were
\* in place, so a user who has consented has consented in every later state,
\* through logout, login, 'I Do Not Consent', deletion and purge; and no run of
\* the script ends on the consent banner for a user who had consented when the
\* run began.
C14_ConsentMonotone ==
    [][ /\ Len(consent_log') >= Len(consent_log)
        /\ SubSeq(consent_log', 1, Len(consent_log)) = consent_log
        /\ \A u \in users :
              HasConsented(consent_log, u.user_id) => HasConsented(consent_log', u.user_id)
        /\ (ScriptRan /\ screen' = "banner") =>
              \A u \in st_user' : ~HasConsented(consent_log, u.user_id)
      ]_vars

\* a user who consented in an earlier session has signed in again and is on the
\* dashboard
C14_Witness ==
    /\ last.op = "login" /\ last.outcome = "success"
    /\ screen \in Roles
    /\ \E u \in st_user : HasConsented(consent_log, u.user_id)

\* the role of the session a step starts in; "-" when nobody is signed in
SessionRole == IF st_user = {} THEN "-" ELSE (CHOOSE u \in st_user : TRUE).role

\* C15: changes of the patient table are gated by role.  A step changes the
\* table only in a session of an admin or a receptionist, and in a
\* receptionist's session only by adding one record; a doctor's session and a
\* session with nobody signed in leave it as it is.  Every add_patient audit
\* entry has role admin or receptionist, and every update_patient,
\* delete_patient, anonymize_all and gdpr_data_retention entry has role admin.
C15_RoleGatedChanges ==
    [][ /\ patients' # patients =>
              /\ SessionRole \in {"admin", "receptionist"}
              /\ SessionRole = "receptionist" =>
                    /\ patients \subseteq patients'
                    /\ Cardinality(patients' \ patients) = 1
        /\ \A i \in DOMAIN logs' :
              /\ logs'[i].action = "add_patient" =>
                    logs'[i].role \in {{"admin"}, {"receptionist"}}
              /\ logs'[i].action \in {"update_patient", "delete_patient",
                                      "anonymize_all", "gdpr_data_retention"} =>
                    logs'[i].role = {"admin"}
      ]_vars

\* a receptionist has added a patient
C15_Witness ==
    /\ last.op = "add" /\ last.outcome = "success"
    /\ screen = "receptionist"
    /\ \E i \in DOMAIN logs :
          logs[i].action = "add_patient" /\ logs[i].role = {"receptionist"}

\* the operations that change the store
StateChanging == {"add", "update", "confirm_delete", "anonymize", "purge", "consent"}

\* C16: when the audit write of a state-changing operation (add, update,
\* delete, anonymize-all, purge, consent) fails, the failure is reported and
\* the store holds no effect of the operation: the patient table and the
\* consent log are as they were before it.
C16_AuditFailureUndoes ==
    [][ (last'.op \in StateChanging /\ last'.fail = "log") =>
            /\ last'.exc \/ last'.outcome = "error"
            /\ patients' = patients
            /\ consent_log' = consent_log
      ]_vars

\* the number of writes an anonymize-all completed before the one that failed
WritesBefore(site) == CHOOSE k \in 0..(MaxPatients + 1) : AnonSite(k + 1) = site

\* C17: when anonymize-all fails at one of its per-record writes, the run
\* reports a failure together with the number of records it had anonymized by
\* then, and the records written before the failure stay anonymized.
C17_PartialAnonymizeCounted ==
    [][ (last'.op = "anonymize" /\ last'.fail \in AnonFails) =>
            /\ last'.outcome = "error"
            /\ last'.count = WritesBefore(last'.fail)
            /\ \A i \in 1..WritesBefore(last'.fail) :
                  \E q \in patients' :
                      /\ q.patient_id = IdsDesc(PatientIds(patients))[i]
                      /\ q.anonymized_name # {} /\ q.anonymized_contact # {}
      ]_vars

\* C19: whenever the dashboard of a role is on the screen for the signed-in
\* user, the consent log holds a record of that user; also after
\* add_consent_record failed under the 'I Consent' button, and after a logout
\* and the login of another user.
C19_DashboardNeedsConsent ==
    screen \in Roles =>
        /\ st_user # {}
        /\ \A u \in st_user : HasConsented(consent_log, u.user_id)

\* C20: every record whose anonymized fields are present has them derived from
\* the name and contact it holds now: anonymized_name = anonymize_name(name)
\* and anonymized_contact = mask_contact(contact), updates after an
\* anonymize-all included.
C20_AnonymizedFieldsCurrent ==
    \A p \in patients :
        /\ p.anonymized_name # {} => p.anonymized_name = anonymize_name(p.name)
        /\ p.anonymized_contact # {} => p.anonymized_contact = mask_contact(p.contact)

\* C21: at every instant the two 90-day views split the patient table: each
\* record is either counted in last_90_days by get_patient_count_by_age or
\* listed by get_patients_for_deletion(90), and then removed by
\* delete_old_records(90), never both and never neither, a record dated
\* exactly at the cutoff included; so total - last_90_days is the number of
\* records a purge would delete.
C21_RetentionPartition ==
    LET s == RunState("none")
        stats == get_patient_count_by_age(s)
        rows == get_patients_for_deletion(s, RetentionDays)
        listed == {rows[i].patient_id : i \in DOMAIN rows}
        purge == delete_old_records(s, RetentionDays)
    IN  /\ \A p \in patients :
              (p.date_added > now - RetentionDays) <=> (p.patient_id \notin listed)
        /\ listed = PatientIds(patients \ purge.patients)
        /\ \A n \in stats.last_90_days :
              /\ n = Cardinality({p \in patients : p.date_added > now - RetentionDays})
              /\ stats.total - n = purge.count

\* the audit actions of the patient lists
ViewActions == {"view_patients_admin", "view_patients_doctor", "view_patients_recep"}

\* the interactions that ask for the patient list: arriving on the dashboard
\* and the Search button
ViewRequests == {"open", "login", "consent", "search"}

\* C22: every audit entry records an action that took place.  A step appends
\* an export_csv entry only when the admin downloads the patients CSV, and a
\* view_patients_<role> entry only when the list was asked for, once, not when
\* the dashboard is drawn again for another button or a submitted form.
C22_EntriesAreActions ==
    [][ /\ \A i \in DOMAIN Appended :
              /\ Appended[i].action = "export_csv" => last'.op = "download"
              /\ Appended[i].action \in ViewActions => last'.op \in ViewRequests
        /\ Cardinality({i \in DOMAIN Appended : Appended[i].action \in ViewActions}) <= 1
      ]_vars

(***************************************************************************)
(* Properties of SpecCred                                                  *)
(***************************************************************************)
\* C6: authenticate fails closed.  It returns no user when the username is not
\* in the users table, the user it returns is the stored row of the username
\* supplied, and it returns that row only when verify_password accepts the
\* password against the row's stored credential.
C6_AuthenticateFailsClosed ==
    auth.done =>
        /\ (\A u \in users : u.username # auth.username) => auth.user = {}
        /\ \A u \in auth.user :
              /\ u \in users
              /\ u.username = auth.username
              /\ verify_password(auth.password, u.password)

\* a known username was refused, and not because the lookup raised
C6_Witness ==
    /\ auth.done /\ ~auth.raised /\ auth.user = {}
    /\ \E u \in users : u.username = auth.username

IsHex64(s) == Len(s) = 64 /\ \A i \in 1..64 : s[i] \in HexChars

\* C7: verify_password(plain, stored) is the comparison of digest(plain) with
\* stored when stored is a 64-character hexadecimal string, and is plain = stored
\* for every other stored value, those of length 64 that are not hexadecimal
\* included.
C7_VerifyByFormat ==
    ver.done =>
        ver.result = IF IsHex64(ver.stored)
                     THEN hash_password(ver.plain) = ver.stored
                     ELSE ver.plain = ver.stored

\* the password an account was given: the text whose digest is stored, or the
\* stored text itself where the table still holds it in the clear
PlainPassword(stored) ==
    CASE stored = H_admin -> P_admin
      [] stored = H_tulaib -> P_tulaib
      [] stored = H_hammad -> P_hammad
      [] OTHER -> stored

\* the table users before init_db first migrated it
OriginalUsers == IF mig.runs = 0 THEN users ELSE mig.original

\* C23: the password migration of init_db is idempotent and keeps every login
\* working.  Once it has run every stored credential has length 64 and another
\* run changes no credential, and before and after it authenticate accepts
\* every user with the password the account was given, a password of exactly
\* 64 characters included.
C23_MigrationKeepsLogins ==
    /\ mig.runs > 0 =>
          /\ \A u \in users : Len(u.password) = 64
          /\ init_db(users) = users
    /\ \A u \in OriginalUsers :
          authenticate(users, u.username, PlainPassword(u.password), FALSE).user # {}

(***************************************************************************)
(* Properties of SpecCrypto                                                *)
(***************************************************************************)
\* C9: with encryption available and the same key at both calls, decrypt_value
\* of what encrypt_value returned for v is v.
C9_RoundTrip ==
    (/\ enc.done /\ ~enc.raised
     /\ dec.done /\ dec.token = enc.token /\ dec.key = enc.key)
        => ~dec.raised /\ dec.value = enc.plain

\* a token encrypt_value made of a non-empty text was decrypted under its key
C9_Witness ==
    /\ enc.done /\ ~enc.raised /\ enc.plain # <<>>
    /\ dec.done /\ dec.token = enc.token /\ dec.key = enc.key

\* C10: decrypt_value does not raise to its caller; given anything that is not
\* a valid token under the current key (text never encrypted, a corrupted
\* token, a token made under an earlier key) it returns what it was given, and
\* a listing that decrypts that value is not aborted.
C10_DecryptDegrades ==
    dec.done =>
        /\ ~dec.raised
        /\ ~FernetValid(dec.key, dec.token) => dec.value = dec.token
        /\ ~AdminListingRaises({[diagnosis |-> dec.token]}, fernet_available, KeyState)

\* a well-formed token of an earlier key came back unchanged
C10_Witness ==
    /\ dec.done /\ IsTokenText(dec.token) /\ dec.token[4] = "hmac"
    /\ dec.token[3] # dec.key
    /\ dec.value = dec.token /\ ~dec.raised

\* C18: the process-wide key is initialized at most once in the lifetime of a
\* process: once _ENCRYPTION_KEY holds a key, every step that leaves the process
\* running (a rerun of the page, an encrypt_value or decrypt_value call, the
\* removal of the key file) leaves it holding the same key.
C18_KeyInitializedOnce ==
    [][ (enc_key # "None" /\ enc_key' # "None") => enc_key' = enc_key ]_vars

(***************************************************************************)
(* Properties of SpecRetention                                             *)
(***************************************************************************)
\* C13: for a threshold of `days`, get_patients_for_deletion returns exactly
\* the records dated strictly before now - days, oldest first, and
\* delete_old_records deletes exactly those records, returns how many they
\* are, and leaves every other record as it was.
C13_RetentionCutoff ==
    /\ ret.op = "list" =>
          /\ {r.patient_id : r \in {ret.rows[i] : i \in DOMAIN ret.rows}}
                 = {p.patient_id : p \in PastRetention(ret.before, ret.at, ret.days)}
          /\ Len(ret.rows) = Cardinality(PastRetention(ret.before, ret.at, ret.days))
          /\ \A i, j \in DOMAIN ret.rows :
                 i < j => ret.rows[i].date_added <= ret.rows[j].date_added
          /\ ret.after = ret.before
    /\ ret.op = "purge" =>
          /\ ret.after = ret.before \ PastRetention(ret.before, ret.at, ret.days)
          /\ ret.count = Cardinality(PastRetention(ret.before, ret.at, ret.days))

\* a purge took two records of different dates and left the one dated exactly
\* at the cutoff
C13_Witness ==
    /\ ret.op = "purge" /\ ret.count = 2
    /\ \E p, q \in ret.before \ ret.after : p.date_added < q.date_added
    /\ \E p \in ret.after : p.date_added = ret.at - ret.days

====
